---- MODULE Spec2Model ----
(***************************************************************************)
(* Streaming statistics core of streamvis: the rolling buffers of          *)
(* cbd_statistic_tools.py (NPFIFOArray, AggregatorWithID) and the          *)
(* CBDStatisticsHandler of jfcbd_statistics_handler.py.                    *)
(*                                                                         *)
(* Numbers are records [nan, n, d]: NaN, or the rational n/d in lowest     *)
(* terms (d = 1 for every value stored in a buffer slot).  An optional     *)
(* value (a pulse id that may be None) is the empty sequence or a          *)
(* one-element sequence.                                                   *)
(***************************************************************************)
EXTENDS Integers, Sequences, FiniteSets, TLC

VARIABLES
    fifo,               \* one NPFIFOArray instance used on its own
    number_of_streaks,  \* CBDStatisticsHandler.number_of_streaks
    streak_lengths,     \* CBDStatisticsHandler.streak_lengths
    bragg_counts,       \* CBDStatisticsHandler.bragg_counts
    bragg_aggregator,   \* CBDStatisticsHandler.bragg_aggregator
    data,               \* CBDStatisticsHandler.data
    sum_data,           \* CBDStatisticsHandler.sum_data
    pushed,             \* history: the last AggSpan + 1 (value, id) pairs
                        \* appended to bragg_aggregator since creation or
                        \* the last clear, oldest first
    unread,             \* history: appends since the last drain or clear
    op,                 \* history: the last call, its arguments and outcome
    lock,               \* CBDStatisticsHandler._lock: owner and depth
    pc,                 \* the statement at which the thread calling parse
                        \* and update (producer) and the thread calling
                        \* reset, clear and __call__ (consumer) stand
    todo,               \* the keys the loop of reset has still to visit
    local,              \* the local names of the calls running on the two
                        \* threads, and the number of update calls made
                        \* on their own
    delivered           \* history: the (value, id) pairs those __call__
                        \* returned, in order

vars == <<fifo, number_of_streaks, streak_lengths, bragg_counts,
          bragg_aggregator, data, sum_data, pushed, unread, op,
          lock, pc, todo, local, delivered>>

raceVars == <<local, delivered>>

threadVars == <<lock, pc, todo, raceVars>>

handlerVars == <<number_of_streaks, streak_lengths, bragg_counts,
                 bragg_aggregator, data, sum_data, pushed, unread>>

(***************************************************************************)
(* Bounds of the model.                                                    *)
(***************************************************************************)
\* slots of an NPFIFOArray (max_span; 5 000 and 50 000 in the handler)
RingSpan == 2
\* slots of the AggregatorWithID (max_span; 750 000 in the handler)
AggSpan == 2
\* measurements are 0..MaxVal
MaxVal == 1
\* longest batch handed to NPFIFOArray.update
MaxBatch == 3
\* appends to the aggregator between two drains or clears
MaxUnread == 3
\* pairs that calls of parse leave unread in the aggregator
MaxPending == 1

PULSE_ID_STEP == 10000

(***************************************************************************)
(* Numbers.                                                                *)
(***************************************************************************)
NaN == [nan |-> TRUE, n |-> 0, d |-> 1]

Num(v) == [nan |-> FALSE, n |-> v, d |-> 1]

RECURSIVE Gcd(_, _)
Gcd(a, b) == IF b = 0 THEN a ELSE Gcd(b, a % b)

Abs(a) == IF a < 0 THEN 0 - a ELSE a

Frac(n, d) ==
    LET g == Gcd(Abs(n), d) IN [nan |-> FALSE, n |-> n \div g, d |-> d \div g]

\* numpy's elementwise a != b: a comparison with NaN is always unequal
NotEqual(a, b) == a.nan \/ b.nan \/ a.n * b.d # b.n * a.d

LessThan(a, b) == a.n * b.d < b.n * a.d

AnyNaN(values) == \E i \in 1..Len(values) : values[i].nan

RECURSIVE SumN(_)
SumN(values) ==
    IF Len(values) = 0 THEN 0 ELSE values[1].n + SumN(Tail(values))

\* np.sum of an array of slot values
NpSum(values) == IF AnyNaN(values) THEN NaN ELSE Num(SumN(values))

\* np.average of a non-empty array of slot values
NpAverage(values) ==
    IF AnyNaN(values) THEN NaN ELSE Frac(SumN(values), Len(values))

Aggregate(kind, values) ==
    IF kind = "sum" THEN NpSum(values) ELSE NpAverage(values)

\* np.roll(x, k): the element at 0-based index i moves to (i + k) mod n
Roll(x, k) ==
    [j \in 1..Len(x) |-> x[((j - 1 - k) % Len(x)) + 1]]

\* x[mask]: the elements of x that differ (numpy !=) from v, in order
RECURSIVE Differing(_, _)
Differing(x, v) ==
    IF Len(x) = 0 THEN <<>>
    ELSE IF NotEqual(x[1], v) THEN <<x[1]>> \o Differing(Tail(x), v)
    ELSE Differing(Tail(x), v)

\* np.min / np.max of an array: an empty array raises ValueError, an array
\* holding NaN gives NaN
NpMin(values) ==
    IF Len(values) = 0 THEN [raised |-> "ValueError", ret |-> NaN]
    ELSE IF AnyNaN(values) THEN [raised |-> "", ret |-> NaN]
    ELSE [raised |-> "",
          ret |-> CHOOSE m \in {values[i] : i \in 1..Len(values)} :
                     \A i \in 1..Len(values) : ~LessThan(values[i], m)]

NpMax(values) ==
    IF Len(values) = 0 THEN [raised |-> "ValueError", ret |-> NaN]
    ELSE IF AnyNaN(values) THEN [raised |-> "", ret |-> NaN]
    ELSE [raised |-> "",
          ret |-> CHOOSE m \in {values[i] : i \in 1..Len(values)} :
                     \A i \in 1..Len(values) : ~LessThan(m, values[i])]

(***************************************************************************)
(* NPFIFOArray.                                                            *)
(***************************************************************************)
NPFIFOArray(empty_value, max_span, aggregate) ==
    [x |-> [i \in 1..max_span |-> empty_value],
     nan |-> empty_value,
     last_value |-> empty_value,
     aggregate |-> aggregate]

\* a variant of update that writes the batch at the tail
NPFIFOArray_update_tail(self, values) ==
    LET k == Len(values)
        c == Len(self.x)
        rolled == Roll(self.x, 0 - k)
    IN  IF k > c
        THEN [self |-> [self EXCEPT !.x = rolled], raised |-> "ValueError"]
        ELSE [self |-> [self EXCEPT
                          !.x = [j \in 1..c |->
                                   IF j > c - k THEN values[j - (c - k)]
                                   ELSE rolled[j]],
                          !.last_value = Aggregate(self.aggregate, values)],
              raised |-> ""]

\* update: roll right by len(values), write the batch at the head, reduce.
\* A batch longer than the buffer fails in the slice assignment, after the
\* roll and before last_value is set.
NPFIFOArray_update(self, values) ==
    LET k == Len(values)
        c == Len(self.x)
        rolled == Roll(self.x, k)
    IN  IF k > c
        THEN [self |-> [self EXCEPT !.x = rolled], raised |-> "ValueError"]
        ELSE [self |-> [self EXCEPT
                          !.x = [j \in 1..c |->
                                   IF j <= k THEN values[j] ELSE rolled[j]],
                          !.last_value = Aggregate(self.aggregate, values)],
              raised |-> ""]

NPFIFOArray_clear(self) ==
    [self EXCEPT !.x = [j \in 1..Len(self.x) |-> self.nan]]

NPFIFOArray_bool(self) ==
    \E i \in 1..Len(self.x) : NotEqual(self.x[i], self.nan)

NPFIFOArray_call(self) == Differing(self.x, self.nan)

NPFIFOArray_min(self) == NpMin(NPFIFOArray_call(self))

NPFIFOArray_max(self) == NpMax(NPFIFOArray_call(self))

(***************************************************************************)
(* Inputs.                                                                 *)
(***************************************************************************)
Values == {Num(v) : v \in 0..MaxVal}

SeqsUpTo(S, n) == UNION {[1..k -> S] : k \in 1..n}

Batches == SeqsUpTo(Values, MaxBatch)

\* the three ways the handler constructs an NPFIFOArray
FifoConfigs ==
    {[empty_value |-> Num(0 - 1), aggregate |-> "average"],
     [empty_value |-> NaN, aggregate |-> "average"],
     [empty_value |-> NaN, aggregate |-> "sum"]}

NoOp == [name |-> "init"]

\* the history of appends, one pair longer
Push(history, pair) ==
    LET h == Append(history, pair)
    IN  IF Len(h) > AggSpan + 1 THEN Tail(h) ELSE h

(***************************************************************************)
(* The handler's state after construction.                                 *)
(***************************************************************************)
Columns ==
    {"pulse_id_bins", "nframes", "bad_frames", "sat_pix_nframes",
     "laser_on_nframes", "laser_on_hits", "laser_on_hits_ratio",
     "laser_off_nframes", "laser_off_hits", "laser_off_hits_ratio"}

InitData == [key \in Columns |-> <<>>]

InitSumData ==
    [key \in Columns |-> IF key = "pulse_id_bins" THEN <<"Summary">> ELSE <<0>>]

InitFifo ==
    \E cfg \in FifoConfigs :
        fifo = NPFIFOArray(cfg.empty_value, RingSpan, cfg.aggregate)

(***************************************************************************)
(* AggregatorWithID.                                                       *)
(***************************************************************************)
None == <<>>

Some(v) == <<v>>

AggregatorWithID(empty_value, max_span, aggregate) ==
    [x |-> [i \in 1..max_span |-> empty_value],
     id |-> [i \in 1..max_span |-> 0],
     nan |-> empty_value,
     last_value |-> empty_value,
     aggregate |-> aggregate,
     last_processed_index |-> 0]

\* a variant of the slice that ignores the cursor and returns the array
SliceFrom_all(x, start) == x

\* x[start:] for start <= 0: a start below -len(x) is clipped to the head
SliceFrom(x, start) ==
    LET n == Len(x)
        first == IF start = 0 THEN 0 ELSE IF n + start < 0 THEN 0 ELSE n + start
    IN  SubSeq(x, first + 1, n)

\* a variant of update that appends at the head and evicts at the tail
AggregatorWithID_update_head(self, values, pulse_id) ==
    IF pulse_id = None THEN self
    ELSE
        LET value == Aggregate(self.aggregate, values)
        IN  [self EXCEPT
               !.x = [Roll(self.x, 1) EXCEPT ![1] = value],
               !.last_value = value,
               !.id = [Roll(self.id, 1) EXCEPT ![1] = pulse_id[1]],
               !.last_processed_index = self.last_processed_index - 1]

\* a variant of update without the check for an absent pulse id (the id
\* array is an int array: None is stored as 0)
AggregatorWithID_update_unchecked(self, values, pulse_id) ==
    LET value == Aggregate(self.aggregate, values)
        c == Len(self.x)
        pid == IF pulse_id = None THEN 0 ELSE pulse_id[1]
    IN  [self EXCEPT
           !.x = [Roll(self.x, 0 - 1) EXCEPT ![c] = value],
           !.last_value = value,
           !.id = [Roll(self.id, 0 - 1) EXCEPT ![c] = pid],
           !.last_processed_index = self.last_processed_index - 1]

AggregatorWithID_update(self, values, pulse_id) ==
    IF pulse_id = None THEN self
    ELSE
        LET value == Aggregate(self.aggregate, values)
            c == Len(self.x)
        IN  [self EXCEPT
               !.x = [Roll(self.x, 0 - 1) EXCEPT ![c] = value],
               !.last_value = value,
               !.id = [Roll(self.id, 0 - 1) EXCEPT ![c] = pulse_id[1]],
               !.last_processed_index = self.last_processed_index - 1]

AggregatorWithID_count(self) == Len(Differing(self.x, self.nan))

\* a variant of clear that forgets the cursor
AggregatorWithID_clear_keeps_cursor(self) ==
    [self EXCEPT
       !.x = [j \in 1..Len(self.x) |-> self.nan],
       !.id = [j \in 1..Len(self.id) |-> 0]]

AggregatorWithID_clear(self) ==
    [self EXCEPT
       !.x = [j \in 1..Len(self.x) |-> self.nan],
       !.id = [j \in 1..Len(self.id) |-> 0],
       !.last_processed_index = 0]

AggregatorWithID_bool(self) ==
    \E i \in 1..Len(self.x) : NotEqual(self.x[i], self.nan)

\* a variant of __call__ that returns the unread suffix and keeps the cursor
AggregatorWithID_call_keep(self) ==
    IF ~AggregatorWithID_bool(self) \/ self.last_processed_index = 0
    THEN [self |-> self, ret |-> <<<<>>, <<>>>>]
    ELSE [self |-> self,
          ret |-> <<SliceFrom(self.x, self.last_processed_index),
                    SliceFrom(self.id, self.last_processed_index)>>]

\* __call__: the consuming read of the pairs appended since the last read
AggregatorWithID_call(self) ==
    IF ~AggregatorWithID_bool(self) \/ self.last_processed_index = 0
    THEN [self |-> self, ret |-> <<<<>>, <<>>>>]
    ELSE [self |-> [self EXCEPT !.last_processed_index = 0],
          ret |-> <<SliceFrom(self.x, self.last_processed_index),
                    SliceFrom(self.id, self.last_processed_index)>>]

AggregatorWithID_last(self) ==
    [raised |-> "", ret |-> <<self.x[Len(self.x)], self.id[Len(self.id)]>>]

(***************************************************************************)
(* CBDStatisticsHandler.                                                   *)
(***************************************************************************)
\* the metadata a call of parse keeps in local names; no call is under way
NoFrame ==
    [is_hit_frame |-> FALSE, pulse_id |-> None, bragg_counts |-> <<>>,
     number_of_streaks |-> NaN, streak_lengths |-> <<>>]

\* no call of parse, update or __call__ has bound a local name yet
NoLocals ==
    [appended |-> 0, value |-> NaN, pulse_id |-> 0, index |-> 0,
     start_id |-> 0, xs |-> <<>>, live |-> FALSE, statement |-> "",
     rolled |-> <<>>,
     frame |-> NoFrame]

\* threading.RLock(): not owned
RLock == [owner |-> "none", count |-> 0]

Init ==
    /\ fifo = NPFIFOArray(Num(0 - 1), RingSpan, "average")
    /\ number_of_streaks = NPFIFOArray(Num(0 - 1), RingSpan, "average")
    /\ streak_lengths = NPFIFOArray(NaN, RingSpan, "average")
    /\ bragg_counts = NPFIFOArray(NaN, RingSpan, "sum")
    /\ bragg_aggregator = AggregatorWithID(NaN, AggSpan, "sum")
    /\ data = InitData
    /\ sum_data = InitSumData
    /\ pushed = <<>>
    /\ unread = 0
    /\ op = NoOp
    /\ lock = RLock
    /\ pc = [producer |-> "idle", consumer |-> "idle"]
    /\ todo = <<>>
    /\ local = NoLocals
    /\ delivered = <<>>

\* the laser-state key of a metadata record: absent, on or off.  No line
\* of parse reads it before the table section, so the value a record
\* carries is drawn when the call gets there.
LaserFlags == {None, Some(TRUE), Some(FALSE)}

\* pulse ids of the frames handed to parse
PulseIds == {PULSE_ID_STEP}

\* the calls of update made directly: single values and one longer batch
AggBatches == {<<v>> : v \in Values} \cup {<<Num(MaxVal), Num(MaxVal)>>}

AggIds == {PULSE_ID_STEP, PULSE_ID_STEP + 3}

\* the keys parse reads of the metadata records handed to it; an absent
\* bragg_counts, number_of_streaks or streak_lengths is its default
\* ([0], 0, [0])
Metadata ==
    [is_hit_frame : BOOLEAN,
     pulse_id : {None} \cup {Some(p) : p \in PulseIds},
     bragg_counts : {<<Num(MaxVal), Num(MaxVal)>>},
     number_of_streaks : {Num(MaxVal)},
     streak_lengths : {<<Num(MaxVal), Num(0)>>}]

\* the statements of NPFIFOArray.update, one at a time.
\* self._x = np.roll(self._x, len(values)) is two steps: np.roll reads the
\* array _x is bound to and returns a new array,
NPFIFOArray_update_roll(self, values) == Roll(self.x, Len(values))

\* and _x is bound to that array; what was written meanwhile into the
\* array _x has left is gone
NPFIFOArray_update_bind(self, rolled) == [self EXCEPT !.x = rolled]

\* self._x[: len(values)] = values: a batch longer than the buffer raises
\* ValueError and leaves the buffer as the roll left it
NPFIFOArray_update_set(self, values) ==
    LET k == Len(values)
        c == Len(self.x)
    IN  IF k > c
        THEN [self |-> self, raised |-> "ValueError"]
        ELSE [self |-> [self EXCEPT
                          !.x = [j \in 1..c |->
                                   IF j <= k THEN values[j] ELSE self.x[j]]],
              raised |-> ""]

\* self.last_value = self._aggregate(values)
NPFIFOArray_update_last(self, values) ==
    [self EXCEPT !.last_value = Aggregate(self.aggregate, values)]

\* the statement of NPFIFOArray.update a thread stands at; rolled is the
\* array np.roll has returned and _x is not yet bound to
NPFIFOArray_update_at(self, values, statement, rolled) ==
    CASE statement = "roll" ->
             [self |-> self, raised |-> "",
              rolled |-> NPFIFOArray_update_roll(self, values)]
      [] statement = "bind" ->
             [self |-> NPFIFOArray_update_bind(self, rolled), raised |-> "",
              rolled |-> <<>>]
      [] statement = "set" ->
             [self |-> NPFIFOArray_update_set(self, values).self,
              raised |-> NPFIFOArray_update_set(self, values).raised,
              rolled |-> <<>>]
      [] statement = "last" ->
             [self |-> NPFIFOArray_update_last(self, values), raised |-> "",
              rolled |-> <<>>]

\* the statement after it, or none when update returns
NextStatement(statement) ==
    CASE statement = "roll" -> "bind"
      [] statement = "bind" -> "set"
      [] statement = "set" -> "last"
      [] statement = "last" -> ""

\* a variant of the start of parse that tests for the dummy image after
\* the aggregator update
parse_start_dummy_late(metadata, dummy) ==
    IF metadata.pulse_id # None THEN "roll_x"
    ELSE IF dummy THEN "idle"
    ELSE "hit_test"

\* where a call of parse stands after lines 82-91 up to the first write:
\* it has returned for a dummy image (line 86); update has returned at once
\* for an absent pulse id (lines 48-50) and parse is at the hit test; or
\* update is about to roll _x (line 54)
parse_start(metadata, dummy) ==
    IF dummy THEN "idle"
    ELSE IF metadata.pulse_id = None THEN "hit_test"
    ELSE "roll_x"

(***************************************************************************)
(* Calls on the NPFIFOArray used on its own.                               *)
(***************************************************************************)
FifoUpdate ==
    \E values \in Batches :
        LET r == NPFIFOArray_update(fifo, values)
        IN  /\ fifo' = r.self
            /\ op' = [name |-> "fifo.update", values |-> values,
                      raised |-> r.raised]
            /\ UNCHANGED <<handlerVars, threadVars>>

FifoClear ==
    /\ fifo' = NPFIFOArray_clear(fifo)
    /\ op' = [name |-> "fifo.clear", last_value |-> fifo.last_value]
    /\ UNCHANGED <<handlerVars, threadVars>>

FifoMin ==
    LET r == NPFIFOArray_min(fifo)
    IN  /\ op' = [name |-> "fifo.min", raised |-> r.raised, ret |-> r.ret]
        /\ UNCHANGED <<threadVars, fifo, handlerVars>>

FifoMax ==
    LET r == NPFIFOArray_max(fifo)
    IN  /\ op' = [name |-> "fifo.max", raised |-> r.raised, ret |-> r.ret]
        /\ UNCHANGED <<threadVars, fifo, handlerVars>>

NextFifo == FifoUpdate \/ FifoClear \/ FifoMin \/ FifoMax

\* the NPFIFOArray is constructed in any of the handler's three ways
InitAnyFifo ==
    /\ InitFifo
    /\ number_of_streaks = NPFIFOArray(Num(0 - 1), RingSpan, "average")
    /\ streak_lengths = NPFIFOArray(NaN, RingSpan, "average")
    /\ bragg_counts = NPFIFOArray(NaN, RingSpan, "sum")
    /\ bragg_aggregator = AggregatorWithID(NaN, AggSpan, "sum")
    /\ data = InitData
    /\ sum_data = InitSumData
    /\ pushed = <<>>
    /\ unread = 0
    /\ op = NoOp
    /\ lock = RLock
    /\ pc = [producer |-> "idle", consumer |-> "idle"]
    /\ todo = <<>>
    /\ local = NoLocals
    /\ delivered = <<>>

SpecFifo == InitAnyFifo /\ [][NextFifo]_vars

(***************************************************************************)
(* Calls on the handler's AggregatorWithID.                                *)
(***************************************************************************)
AggUpdate ==
    \E values \in AggBatches, pulse_id \in {None} \cup {Some(p) : p \in AggIds} :
        /\ unread < MaxUnread
        /\ bragg_aggregator' =
               AggregatorWithID_update(bragg_aggregator, values, pulse_id)
        /\ pushed' = IF pulse_id = None THEN pushed
                     ELSE Push(pushed, <<NpSum(values), pulse_id[1]>>)
        /\ unread' = IF pulse_id = None THEN unread ELSE unread + 1
        /\ op' = [name |-> "update", values |-> values, pulse_id |-> pulse_id,
                  raised |-> ""]
        /\ UNCHANGED <<threadVars, fifo, number_of_streaks, streak_lengths, bragg_counts,
                       data, sum_data>>

AggDrain ==
    LET r == AggregatorWithID_call(bragg_aggregator)
    IN  /\ bragg_aggregator' = r.self
        /\ unread' = 0
        /\ op' = [name |-> "drain", ret |-> r.ret, unread |-> unread,
                  prev |-> op.name]
        /\ UNCHANGED <<threadVars, fifo, number_of_streaks, streak_lengths, bragg_counts,
                       data, sum_data, pushed>>

AggLast ==
    LET r == AggregatorWithID_last(bragg_aggregator)
    IN  /\ op' = [name |-> "last", raised |-> r.raised, ret |-> r.ret,
                  cursor |-> bragg_aggregator.last_processed_index]
        /\ UNCHANGED <<threadVars, fifo, handlerVars>>

AggCount ==
    /\ op' = [name |-> "count", ret |-> AggregatorWithID_count(bragg_aggregator)]
    /\ UNCHANGED <<threadVars, fifo, handlerVars>>

AggClear ==
    /\ bragg_aggregator' = AggregatorWithID_clear(bragg_aggregator)
    /\ pushed' = <<>>
    /\ unread' = 0
    /\ op' = [name |-> "clear"]
    /\ UNCHANGED <<threadVars, fifo, number_of_streaks, streak_lengths, bragg_counts,
                   data, sum_data>>

NextAgg == AggUpdate \/ AggDrain \/ AggLast \/ AggCount \/ AggClear

SpecAgg == Init /\ [][NextAgg]_vars

(***************************************************************************)
(* Calls on the handler.                                                   *)
(***************************************************************************)
\* the keys of data and sum_data in the order the loops of reset visit them
ColumnOrder ==
    <<"pulse_id_bins", "nframes", "bad_frames", "sat_pix_nframes",
      "laser_on_nframes", "laser_on_hits", "laser_on_hits_ratio",
      "laser_off_nframes", "laser_off_hits", "laser_off_hits_ratio">>

\* a lock that anyone can take at any time
CanAcquire_always(l, thread) == TRUE

\* RLock.acquire succeeds when the lock is free or owned by the caller
CanAcquire(l, thread) == l.owner = "none" \/ l.owner = thread

Acquire(l, thread) == [owner |-> thread, count |-> l.count + 1]

Release(l) ==
    IF l.count <= 1 THEN RLock ELSE [l EXCEPT !.count = @ - 1]

(***************************************************************************)
(* update and __call__ of the aggregator, one statement at a time.  They   *)
(* take no lock: the producer thread runs update (called on its own or by  *)
(* parse, line 91) and the consumer thread runs __call__; a step is one    *)
(* read or one write of _x, _id or last_processed_index.  The k-th update  *)
(* called on its own carries the value k and the pulse id                  *)
(* PULSE_ID_STEP + k, so that each of those pairs differs from every other.*)
(***************************************************************************)
Appended(k) == <<Num(k), PULSE_ID_STEP + k>>

\* update is called: pulse_id is present, value = self._aggregate(values)
RaceUpdateCall ==
    /\ pc.producer = "idle"
    /\ local.appended < MaxUnread
    /\ local' = [local EXCEPT
                   !.appended = @ + 1,
                   !.value = Aggregate(bragg_aggregator.aggregate,
                                       <<Appended(local.appended + 1)[1]>>),
                   !.pulse_id = Appended(local.appended + 1)[2]]
    /\ pc' = [pc EXCEPT !.producer = "roll_x"]
    /\ op' = [name |-> "RaceUpdateCall"]
    /\ UNCHANGED <<fifo, handlerVars, lock, todo, delivered>>

\* self._x = np.roll(self._x, -1), the call: np.roll reads the array _x is
\* bound to and returns a new array
RaceRollX ==
    /\ pc.producer = "roll_x"
    /\ local' = [local EXCEPT !.rolled = Roll(bragg_aggregator.x, 0 - 1)]
    /\ pc' = [pc EXCEPT !.producer = "bind_x"]
    /\ op' = [name |-> "RaceRollX"]
    /\ UNCHANGED <<fifo, handlerVars, lock, todo, delivered>>

\* self._x = np.roll(self._x, -1), the store: _x is bound to the new array,
\* so a slice taken before is a view of the array _x has left, and what
\* was written into that array since the call is gone
RaceBindX ==
    /\ pc.producer = "bind_x"
    /\ bragg_aggregator' = [bragg_aggregator EXCEPT !.x = local.rolled]
    /\ local' = [local EXCEPT !.rolled = NoLocals.rolled, !.live = FALSE]
    /\ pc' = [pc EXCEPT !.producer = "set_x"]
    /\ op' = [name |-> "RaceBindX"]
    /\ UNCHANGED <<fifo, number_of_streaks, streak_lengths, bragg_counts,
                   data, sum_data, pushed, unread, lock, todo, delivered>>

\* self._x[-1] = value; self.last_value = value.  The write goes into the
\* array _x is bound to: a slice of that array held by __call__ is a view
\* and shows the new last element
RaceSetX ==
    /\ pc.producer = "set_x"
    /\ bragg_aggregator' =
           [bragg_aggregator EXCEPT !.x[AggSpan] = local.value,
                                    !.last_value = local.value]
    /\ local' = IF local.live /\ local.xs # <<>>
                THEN [local EXCEPT !.xs[Len(local.xs)] = local.value]
                ELSE local
    /\ pc' = [pc EXCEPT !.producer = "roll_id"]
    /\ op' = [name |-> "RaceSetX"]
    /\ UNCHANGED <<fifo, number_of_streaks, streak_lengths, bragg_counts,
                   data, sum_data, pushed, unread, lock, todo, delivered>>

\* self._id = np.roll(self._id, -1), the call
RaceRollId ==
    /\ pc.producer = "roll_id"
    /\ local' = [local EXCEPT !.rolled = Roll(bragg_aggregator.id, 0 - 1)]
    /\ pc' = [pc EXCEPT !.producer = "bind_id"]
    /\ op' = [name |-> "RaceRollId"]
    /\ UNCHANGED <<fifo, handlerVars, lock, todo, delivered>>

\* self._id = np.roll(self._id, -1), the store
RaceBindId ==
    /\ pc.producer = "bind_id"
    /\ bragg_aggregator' = [bragg_aggregator EXCEPT !.id = local.rolled]
    /\ local' = [local EXCEPT !.rolled = NoLocals.rolled]
    /\ pc' = [pc EXCEPT !.producer = "set_id"]
    /\ op' = [name |-> "RaceBindId"]
    /\ UNCHANGED <<fifo, number_of_streaks, streak_lengths, bragg_counts,
                   data, sum_data, pushed, unread, lock, todo, delivered>>

\* self._id[-1] = pulse_id
RaceSetId ==
    /\ pc.producer = "set_id"
    /\ bragg_aggregator' =
           [bragg_aggregator EXCEPT !.id[AggSpan] = local.pulse_id]
    /\ pc' = [pc EXCEPT !.producer = "read_index"]
    /\ op' = [name |-> "RaceSetId"]
    /\ UNCHANGED <<fifo, number_of_streaks, streak_lengths, bragg_counts,
                   data, sum_data, pushed, unread, lock, todo, raceVars>>

\* self.last_processed_index -= 1: the read
RaceReadIndex ==
    /\ pc.producer = "read_index"
    /\ local' = [local EXCEPT !.index = bragg_aggregator.last_processed_index]
    /\ pc' = [pc EXCEPT !.producer = "write_index"]
    /\ op' = [name |-> "RaceReadIndex"]
    /\ UNCHANGED <<fifo, handlerVars, lock, todo, delivered>>

\* self.last_processed_index -= 1: the write.  update returns, to its
\* caller or to line 93 of parse, and its local names are gone
RaceWriteIndex ==
    /\ pc.producer = "write_index"
    /\ bragg_aggregator' =
           [bragg_aggregator EXCEPT !.last_processed_index = local.index - 1]
    /\ local' = [local EXCEPT !.value = NoLocals.value,
                                !.pulse_id = NoLocals.pulse_id,
                                !.index = NoLocals.index]
    /\ pc' = [pc EXCEPT !.producer =
                 IF local.frame = NoFrame THEN "idle" ELSE "hit_test"]
    /\ op' = [name |-> "RaceWriteIndex"]
    /\ UNCHANGED <<fifo, number_of_streaks, streak_lengths, bragg_counts,
                   data, sum_data, pushed, unread, lock, todo, delivered>>

\* __call__ is called: `not self` reads _x and returns [], [] when every
\* slot compares equal to the sentinel
RaceDrainBool ==
    /\ pc.consumer = "idle"
    /\ pc' = [pc EXCEPT !.consumer =
                 IF AggregatorWithID_bool(bragg_aggregator)
                 THEN "test_index" ELSE "idle"]
    /\ op' = [name |-> "RaceDrainBool"]
    /\ UNCHANGED <<fifo, handlerVars, lock, todo, raceVars>>

\* self.last_processed_index == 0: return [], []
RaceDrainTestIndex ==
    /\ pc.consumer = "test_index"
    /\ pc' = [pc EXCEPT !.consumer =
                 IF bragg_aggregator.last_processed_index = 0
                 THEN "idle" ELSE "read_start"]
    /\ op' = [name |-> "RaceDrainTestIndex"]
    /\ UNCHANGED <<fifo, handlerVars, lock, todo, raceVars>>

\* start_id = self.last_processed_index
RaceDrainReadStart ==
    /\ pc.consumer = "read_start"
    /\ local' = [local EXCEPT
                   !.start_id = bragg_aggregator.last_processed_index]
    /\ pc' = [pc EXCEPT !.consumer = "reset_index"]
    /\ op' = [name |-> "RaceDrainReadStart"]
    /\ UNCHANGED <<fifo, handlerVars, lock, todo, delivered>>

\* self.last_processed_index = 0
RaceDrainResetIndex ==
    /\ pc.consumer = "reset_index"
    /\ bragg_aggregator' =
           [bragg_aggregator EXCEPT !.last_processed_index = 0]
    /\ pc' = [pc EXCEPT !.consumer = "slice_x"]
    /\ op' = [name |-> "RaceDrainResetIndex"]
    /\ UNCHANGED <<fifo, number_of_streaks, streak_lengths, bragg_counts,
                   data, sum_data, pushed, unread, lock, todo, raceVars>>

\* self._x[start_id:]: a view of the array _x is bound to now
RaceDrainSliceX ==
    /\ pc.consumer = "slice_x"
    /\ local' = [local EXCEPT
                   !.xs = SliceFrom(bragg_aggregator.x, local.start_id),
                   !.live = TRUE]
    /\ pc' = [pc EXCEPT !.consumer = "slice_id"]
    /\ op' = [name |-> "RaceDrainSliceX"]
    /\ UNCHANGED <<fifo, handlerVars, lock, todo, delivered>>

\* self._id[start_id:], and the return of both slices; the caller reads
\* the returned arrays at once: the elements of the first slice are what
\* its array holds now
RaceDrainSliceId ==
    LET ids == SliceFrom(bragg_aggregator.id, local.start_id)
    IN  /\ pc.consumer = "slice_id"
        /\ delivered' = delivered \o
               [i \in 1..Len(ids) |-> <<local.xs[i], ids[i]>>]
        /\ local' = [local EXCEPT !.xs = <<>>, !.live = FALSE,
                                    !.start_id = NoLocals.start_id]
        /\ pc' = [pc EXCEPT !.consumer = "idle"]
        /\ op' = [name |-> "RaceDrainSliceId"]
        /\ UNCHANGED <<fifo, handlerVars, lock, todo>>

\* self._id[start_id:] and the return of both slices, for a caller whose
\* use of the returned arrays is not followed
DrainSliceId ==
    /\ pc.consumer = "slice_id"
    /\ local' = [local EXCEPT !.xs = <<>>, !.live = FALSE,
                                !.start_id = NoLocals.start_id]
    /\ pc' = [pc EXCEPT !.consumer = "idle"]
    /\ op' = [name |-> "call.return"]
    /\ UNCHANGED <<fifo, handlerVars, lock, todo, delivered>>

(***************************************************************************)
(* Calls on the handler, one statement at a time.  The producer thread     *)
(* calls parse; the consumer thread calls reset, clear and the             *)
(* aggregator's __call__.  Only the table section of parse and reset take  *)
(* the lock; everywhere else a step is one statement that reads or writes  *)
(* a buffer, and the other thread can take steps before the next one.      *)
(***************************************************************************)
\* parse is called (lines 82-91) and, through update, evaluates the pair to
\* append (lines 48-53).  Nothing is written yet.
Parse ==
    \E metadata \in Metadata, dummy \in BOOLEAN :
        LET at == parse_start(metadata, dummy)
        IN  /\ pc.producer = "idle"
            /\ at = "roll_x" =>
                   bragg_aggregator.last_processed_index > 0 - MaxPending
            /\ pc' = [pc EXCEPT !.producer = at]
            /\ local' =
                   IF at = "idle" THEN local
                   ELSE IF at = "hit_test"
                   THEN [local EXCEPT !.frame = metadata]
                   ELSE [local EXCEPT
                           !.frame = metadata,
                           !.value = Aggregate(bragg_aggregator.aggregate,
                                               metadata.bragg_counts),
                           !.pulse_id = metadata.pulse_id[1]]
            /\ op' = [name |-> "parse",
                      is_hit_frame |-> metadata.is_hit_frame,
                      pulse_id |-> metadata.pulse_id,
                      dummy |-> dummy,
                      returned |-> at = "idle",
                      raised |-> ""]
            /\ UNCHANGED <<fifo, handlerVars, lock, todo, delivered>>

\* a variant of the hit test that lets every frame through
ParseHitTest_all_frames ==
    /\ pc.producer = "hit_test"
    /\ pc' = [pc EXCEPT !.producer = "bragg_counts"]
    /\ local' = [local EXCEPT !.statement = "roll"]
    /\ op' = [name |-> "parse.hit_test",
              is_hit_frame |-> local.frame.is_hit_frame,
              pulse_id |-> local.frame.pulse_id,
              dummy |-> FALSE,
              returned |-> FALSE,
              raised |-> ""]
    /\ UNCHANGED <<fifo, handlerVars, lock, todo, delivered>>

\* if not is_hit_frame: return (lines 93-95)
ParseHitTest ==
    /\ pc.producer = "hit_test"
    /\ pc' = [pc EXCEPT !.producer =
                 IF local.frame.is_hit_frame THEN "bragg_counts" ELSE "idle"]
    /\ local' = IF local.frame.is_hit_frame
                THEN [local EXCEPT !.statement = "roll"]
                ELSE [local EXCEPT !.frame = NoFrame]
    /\ op' = [name |-> "parse.hit_test",
              is_hit_frame |-> local.frame.is_hit_frame,
              pulse_id |-> local.frame.pulse_id,
              dummy |-> FALSE,
              returned |-> ~local.frame.is_hit_frame,
              raised |-> ""]
    /\ UNCHANGED <<fifo, handlerVars, lock, todo, delivered>>

\* where parse stands after one statement of the update of a buffer: at the
\* next statement of that update, at the line after the update (then), or
\* outside when the statement raised
AfterStatement(raised, rolled, then, name) ==
    LET next == NextStatement(local.statement)
    IN  /\ pc' = [pc EXCEPT !.producer =
                     IF raised # "" THEN "idle"
                     ELSE IF next = "" THEN then
                     ELSE @]
        /\ local' =
               IF raised # ""
               THEN [local EXCEPT !.statement = "", !.frame = NoFrame]
               ELSE IF next # ""
               THEN [local EXCEPT !.statement = next, !.rolled = rolled]
               ELSE IF then = "with" THEN [local EXCEPT !.statement = ""]
               ELSE [local EXCEPT !.statement = "roll"]
        /\ op' = [name |-> name,
                  is_hit_frame |-> local.frame.is_hit_frame,
                  pulse_id |-> local.frame.pulse_id,
                  dummy |-> FALSE,
                  returned |-> raised # "",
                  raised |-> raised]

\* self.bragg_counts.update(np.array([np.sum(bragg_counts)])), line 97:
\* one statement of update
ParseBraggCounts ==
    LET r == NPFIFOArray_update_at(
                 bragg_counts, <<NpSum(local.frame.bragg_counts)>>,
                 local.statement, local.rolled)
    IN  /\ pc.producer = "bragg_counts"
        /\ bragg_counts' = r.self
        /\ AfterStatement(r.raised, r.rolled, "number_of_streaks",
                          "parse.bragg_counts")
        /\ UNCHANGED <<fifo, number_of_streaks, streak_lengths,
                       bragg_aggregator, data, sum_data, pushed, unread,
                       lock, todo, delivered>>

\* self.number_of_streaks.update(np.array([number_of_streaks])), line 100:
\* one statement of update
ParseNumberOfStreaks ==
    LET r == NPFIFOArray_update_at(
                 number_of_streaks, <<local.frame.number_of_streaks>>,
                 local.statement, local.rolled)
    IN  /\ pc.producer = "number_of_streaks"
        /\ number_of_streaks' = r.self
        /\ AfterStatement(r.raised, r.rolled, "streak_lengths",
                          "parse.number_of_streaks")
        /\ UNCHANGED <<fifo, streak_lengths, bragg_counts, bragg_aggregator,
                       data, sum_data, pushed, unread, lock, todo, delivered>>

\* self.streak_lengths.update(np.array(streak_lengths)), line 103: one
\* statement of update; after the last one parse is at the with statement
ParseStreakLengths ==
    LET r == NPFIFOArray_update_at(
                 streak_lengths, local.frame.streak_lengths, local.statement,
                 local.rolled)
    IN  /\ pc.producer = "streak_lengths"
        /\ streak_lengths' = r.self
        /\ AfterStatement(r.raised, r.rolled, "with",
                          "parse.streak_lengths")
        /\ UNCHANGED <<fifo, number_of_streaks, bragg_counts,
                       bragg_aggregator, data, sum_data, pushed, unread,
                       lock, todo, delivered>>

\* with self._lock: in parse
ProducerAcquire ==
    /\ pc.producer = "with"
    /\ CanAcquire(lock, "producer")
    /\ lock' = Acquire(lock, "producer")
    /\ pc' = [pc EXCEPT !.producer = "lookup"]
    /\ op' = [name |-> "parse.with"]
    /\ UNCHANGED <<raceVars, fifo, handlerVars, todo>>

\* a variant of the table section that appends the key of a bin to
\* pulse_id_bins before it fails
ProducerLookup_key_only ==
    /\ pc.producer = "lookup"
    /\ data' = [data EXCEPT !.pulse_id_bins = Append(@, 1)]
    /\ pc' = [pc EXCEPT !.producer = "exit"]
    /\ \E laser_on \in LaserFlags :
           op' = [name |-> "parse.record",
                  is_hit_frame |-> local.frame.is_hit_frame,
                  pulse_id |-> local.frame.pulse_id,
                  laser_on |-> laser_on,
                  dummy |-> FALSE,
                  raised |-> "NameError"]
    /\ UNCHANGED <<raceVars, fifo, number_of_streaks, streak_lengths,
                   bragg_counts, bragg_aggregator, sum_data, pushed, unread,
                   lock, todo>>

\* the table section of parse (from line 105) starts by evaluating
\* pulse_id_bin, a name that is bound nowhere in the function or the
\* module: the lookup of line 109 raises NameError inside the try (which
\* catches ValueError only).  Nothing after line 109 is executed.
ProducerLookup ==
    /\ pc.producer = "lookup"
    /\ pc' = [pc EXCEPT !.producer = "exit"]
    /\ \E laser_on \in LaserFlags :
           op' = [name |-> "parse.record",
                  is_hit_frame |-> local.frame.is_hit_frame,
                  pulse_id |-> local.frame.pulse_id,
                  laser_on |-> laser_on,
                  dummy |-> FALSE,
                  raised |-> "NameError"]
    /\ UNCHANGED <<raceVars, fifo, handlerVars, lock, todo>>

\* the with statement releases the lock and the exception leaves parse
ProducerRelease ==
    /\ pc.producer = "exit"
    /\ lock' = Release(lock)
    /\ pc' = [pc EXCEPT !.producer = "idle"]
    /\ local' = [local EXCEPT !.frame = NoFrame]
    /\ op' = [name |-> "parse.exit",
              is_hit_frame |-> local.frame.is_hit_frame,
              pulse_id |-> local.frame.pulse_id,
              dummy |-> FALSE,
              raised |-> "NameError"]
    /\ UNCHANGED <<fifo, handlerVars, todo, delivered>>

\* reset is called
ResetCall ==
    /\ pc.consumer = "idle"
    /\ pc' = [pc EXCEPT !.consumer = "with"]
    /\ op' = [name |-> "reset.call"]
    /\ UNCHANGED <<raceVars, fifo, handlerVars, lock, todo>>

\* with self._lock: in reset
ResetAcquire ==
    /\ pc.consumer = "with"
    /\ CanAcquire(lock, "consumer")
    /\ lock' = Acquire(lock, "consumer")
    /\ pc' = [pc EXCEPT !.consumer = "columns"]
    /\ todo' = ColumnOrder
    /\ op' = [name |-> "reset.with"]
    /\ UNCHANGED <<raceVars, fifo, handlerVars>>

\* one round of the loop over data.values()
ResetColumn ==
    /\ pc.consumer = "columns"
    /\ data' = [data EXCEPT ![Head(todo)] = <<>>]
    /\ IF Tail(todo) = <<>>
       THEN /\ pc' = [pc EXCEPT !.consumer = "summary"]
            /\ todo' = ColumnOrder
       ELSE /\ pc' = pc
            /\ todo' = Tail(todo)
    /\ op' = [name |-> "reset.column"]
    /\ UNCHANGED <<raceVars, fifo, number_of_streaks, streak_lengths,
                   bragg_counts, bragg_aggregator, sum_data, pushed, unread,
                   lock>>

\* a variant of the second loop that clears the entries of the summary row
\* like the columns of the table
ResetSummary_clears ==
    /\ pc.consumer = "summary"
    /\ sum_data' = [sum_data EXCEPT ![Head(todo)] = <<>>]
    /\ IF Tail(todo) = <<>>
       THEN pc' = [pc EXCEPT !.consumer = "exit"]
       ELSE pc' = pc
    /\ todo' = Tail(todo)
    /\ op' = [name |-> "reset.summary"]
    /\ UNCHANGED <<raceVars, fifo, number_of_streaks, streak_lengths,
                   bragg_counts, bragg_aggregator, data, pushed, unread, lock>>

\* one round of the loop over sum_data.items()
ResetSummary ==
    /\ pc.consumer = "summary"
    /\ sum_data' = IF Head(todo) # "pulse_id_bins"
                   THEN [sum_data EXCEPT ![Head(todo)][1] = 0]
                   ELSE sum_data
    /\ IF Tail(todo) = <<>>
       THEN pc' = [pc EXCEPT !.consumer = "exit"]
       ELSE pc' = pc
    /\ todo' = Tail(todo)
    /\ op' = [name |-> "reset.summary"]
    /\ UNCHANGED <<raceVars, fifo, number_of_streaks, streak_lengths,
                   bragg_counts, bragg_aggregator, data, pushed, unread, lock>>

\* the with statement of reset releases the lock and reset returns
ResetRelease ==
    /\ pc.consumer = "exit"
    /\ lock' = Release(lock)
    /\ pc' = [pc EXCEPT !.consumer = "idle"]
    /\ op' = [name |-> "reset"]
    /\ UNCHANGED <<raceVars, fifo, handlerVars, todo>>


\* clear is called by the consumer thread and takes no lock.
\* self.number_of_streaks.clear(), line 169
ClearNumberOfStreaks ==
    /\ pc.consumer = "idle"
    /\ number_of_streaks' = NPFIFOArray_clear(number_of_streaks)
    /\ pc' = [pc EXCEPT !.consumer = "clear.streak_lengths"]
    /\ op' = [name |-> "clear.number_of_streaks"]
    /\ UNCHANGED <<raceVars, fifo, streak_lengths, bragg_counts,
                   bragg_aggregator, data, sum_data, pushed, unread, lock,
                   todo>>

\* self.streak_lengths.clear(), line 170
ClearStreakLengths ==
    /\ pc.consumer = "clear.streak_lengths"
    /\ streak_lengths' = NPFIFOArray_clear(streak_lengths)
    /\ pc' = [pc EXCEPT !.consumer = "clear.bragg_counts"]
    /\ op' = [name |-> "clear.streak_lengths"]
    /\ UNCHANGED <<raceVars, fifo, number_of_streaks, bragg_counts,
                   bragg_aggregator, data, sum_data, pushed, unread, lock,
                   todo>>

\* self.bragg_counts.clear(), line 171
ClearBraggCounts ==
    /\ pc.consumer = "clear.bragg_counts"
    /\ bragg_counts' = NPFIFOArray_clear(bragg_counts)
    /\ pc' = [pc EXCEPT !.consumer = "clear.x"]
    /\ op' = [name |-> "clear.bragg_counts"]
    /\ UNCHANGED <<raceVars, fifo, number_of_streaks, streak_lengths,
                   bragg_aggregator, data, sum_data, pushed, unread, lock,
                   todo>>

\* self.bragg_aggregator.clear(), line 172: self._x[...] = self._nan
ClearAggregatorX ==
    /\ pc.consumer = "clear.x"
    /\ bragg_aggregator' =
           [bragg_aggregator EXCEPT
              !.x = [j \in 1..Len(@) |-> bragg_aggregator.nan]]
    /\ pc' = [pc EXCEPT !.consumer = "clear.id"]
    /\ op' = [name |-> "clear.x"]
    /\ UNCHANGED <<raceVars, fifo, number_of_streaks, streak_lengths,
                   bragg_counts, data, sum_data, pushed, unread, lock, todo>>

\* self._id[...] = 0
ClearAggregatorId ==
    /\ pc.consumer = "clear.id"
    /\ bragg_aggregator' =
           [bragg_aggregator EXCEPT !.id = [j \in 1..Len(@) |-> 0]]
    /\ pc' = [pc EXCEPT !.consumer = "clear.index"]
    /\ op' = [name |-> "clear.id"]
    /\ UNCHANGED <<raceVars, fifo, number_of_streaks, streak_lengths,
                   bragg_counts, data, sum_data, pushed, unread, lock, todo>>

\* self.last_processed_index = 0; the aggregator's clear and the handler's
\* clear return
ClearAggregatorIndex ==
    /\ pc.consumer = "clear.index"
    /\ bragg_aggregator' =
           [bragg_aggregator EXCEPT !.last_processed_index = 0]
    /\ pc' = [pc EXCEPT !.consumer = "idle"]
    /\ op' = [name |-> "handler.clear"]
    /\ UNCHANGED <<raceVars, fifo, number_of_streaks, streak_lengths,
                   bragg_counts, data, sum_data, pushed, unread, lock, todo>>

\* parse on the producer thread next to reset on the consumer thread
NextThreads ==
    \/ Parse
    \/ RaceRollX
    \/ RaceBindX
    \/ RaceSetX
    \/ RaceRollId
    \/ RaceBindId
    \/ RaceSetId
    \/ RaceReadIndex
    \/ RaceWriteIndex
    \/ ParseHitTest
    \/ ParseBraggCounts
    \/ ParseNumberOfStreaks
    \/ ParseStreakLengths
    \/ ProducerAcquire
    \/ ProducerLookup
    \/ ProducerRelease
    \/ ResetCall
    \/ ResetAcquire
    \/ ResetColumn
    \/ ResetSummary
    \/ ResetRelease

SpecThreads == Init /\ [][NextThreads]_vars

\* every call on the handler: parse on the producer thread, and reset,
\* clear and the aggregator's __call__ on the consumer thread
Next ==
    \/ NextThreads
    \/ ClearNumberOfStreaks
    \/ ClearStreakLengths
    \/ ClearBraggCounts
    \/ ClearAggregatorX
    \/ ClearAggregatorId
    \/ ClearAggregatorIndex
    \/ RaceDrainBool
    \/ RaceDrainTestIndex
    \/ RaceDrainReadStart
    \/ RaceDrainResetIndex
    \/ RaceDrainSliceX
    \/ DrainSliceId

Spec == Init /\ [][Next]_vars



(***************************************************************************)
(* Properties of NPFIFOArray, checked under SpecFifo.                      *)
(***************************************************************************)
Empty(self) == \A i \in 1..Len(self.x) : self.x[i] = self.nan

\* C1: after update(batch) with a non-empty batch no longer than the
\* capacity, the buffer still has exactly capacity slots and slots
\* 0..len(batch)-1 hold the batch in the given order.
C1_UpdateWritesBatchAtHead ==
    (op.name = "fifo.update" /\ Len(op.values) <= RingSpan) =>
        /\ op.raised = ""
        /\ Len(fifo.x) = RingSpan
        /\ \A i \in 1..Len(op.values) : fifo.x[i] = op.values[i]

\* a batch shorter than the buffer was written in front of an older value
C1_Witness ==
    /\ op.name = "fifo.update"
    /\ Len(op.values) < RingSpan
    /\ op.raised = ""
    /\ fifo.x[Len(op.values) + 1] # fifo.nan

\* C6: after clear(), whatever the sentinel, is_nonempty() is false,
\* valid_values() is empty and last_value is what it was before.
C6_ClearEmptiesTheBuffer ==
    op.name = "fifo.clear" =>
        /\ ~NPFIFOArray_bool(fifo)
        /\ NPFIFOArray_call(fifo) = <<>>
        /\ fifo.last_value = op.last_value

\* C7: min and max on a buffer that holds no valid value (every slot is the
\* sentinel) end in an error, whatever the sentinel.
C7_MinMaxOfEmptyRaises ==
    (op.name \in {"fifo.min", "fifo.max"} /\ Empty(fifo)) => op.raised # ""

(***************************************************************************)
(* Properties of AggregatorWithID, checked under SpecAgg.                  *)
(***************************************************************************)
Cursor == bragg_aggregator.last_processed_index

Stored(i) == <<bragg_aggregator.x[i], bragg_aggregator.id[i]>>

\* C2: count() never exceeds the capacity, and once capacity + 1 pairs were
\* appended the oldest of them is gone and the buffer holds the capacity
\* later pairs in arrival order.
C2_CapacityAndEviction ==
    /\ AggregatorWithID_count(bragg_aggregator) <= AggSpan
    /\ Len(bragg_aggregator.x) = AggSpan
    /\ Len(pushed) = AggSpan + 1 =>
        /\ \A i \in 1..AggSpan : Stored(i) = pushed[i + 1]
        /\ (\A j \in 2..(AggSpan + 1) : pushed[j] # pushed[1]) =>
               \A i \in 1..AggSpan : Stored(i) # pushed[1]

\* capacity + 1 pairs were appended and the oldest differs from the others
C2_Witness ==
    /\ op.name = "update"
    /\ op.pulse_id # None
    /\ Len(pushed) = AggSpan + 1
    /\ \A j \in 2..(AggSpan + 1) : pushed[j] # pushed[1]

\* C3: a drain() that directly follows a drain() returns two empty
\* sequences and leaves the cursor at 0.
C3_SecondDrainIsEmpty ==
    (op.name = "drain" /\ op.prev = "drain") =>
        /\ op.ret = <<<<>>, <<>>>>
        /\ Cursor = 0

\* a drain directly after a drain, on a buffer that holds appended pairs
C3_Witness ==
    /\ op.name = "drain"
    /\ op.prev = "drain"
    /\ Len(pushed) > 0

Min(a, b) == IF a < b THEN a ELSE b

\* C4: with n >= 1 appends since the last drain (or creation, or clear),
\* drain() returns the min(n, capacity) most recent pairs in arrival order,
\* values and identifiers aligned, and sets the cursor to 0.
C4_DrainReturnsUnread ==
    (op.name = "drain" /\ op.unread >= 1) =>
        LET k == Min(op.unread, AggSpan)
            m == Len(pushed)
        IN  /\ Cursor = 0
            /\ Len(op.ret[1]) = k
            /\ Len(op.ret[2]) = k
            /\ \A i \in 1..k :
                   <<op.ret[1][i], op.ret[2][i]>> = pushed[m - k + i]

\* a drain of one unread pair from a buffer whose older pairs were read
C4_Witness ==
    /\ op.name = "drain"
    /\ op.unread = 1
    /\ Len(pushed) = AggSpan + 1

\* a drain after more appends than the buffer holds
C4_WitnessOverflow ==
    /\ op.name = "drain"
    /\ op.unread > AggSpan

\* C5: update with an absent identifier changes nothing of the aggregator
\* (values, identifiers, last_value, cursor) and raises no error.
C5_UpdateWithoutIdIsNoOp ==
    [][(op'.name = "update" /\ op'.pulse_id = None) =>
           /\ bragg_aggregator' = bragg_aggregator
           /\ op'.raised = ""]_vars

\* an update without identifier on a buffer that holds unread pairs
C5_Witness ==
    /\ op.name = "update"
    /\ op.pulse_id = None
    /\ unread > 0
    /\ Cursor < 0

\* C8: last() returns the most recently appended pair and leaves the cursor
\* alone; on a buffer nothing was appended to it ends in an error.
C8_LastPairOrError ==
    op.name = "last" =>
        IF Len(pushed) > 0
        THEN /\ op.raised = ""
             /\ op.ret = pushed[Len(pushed)]
             /\ Cursor = op.cursor
        ELSE op.raised # ""

(***************************************************************************)
(* Properties of the table section of parse, checked under Spec.           *)
(***************************************************************************)
\* the step is the table section of a call of parse, run under the lock
RecordCalled ==
    /\ op'.name = "parse.record"
    /\ ~op'.dummy
    /\ op'.is_hit_frame
    /\ op'.pulse_id # None

\* the indices of the 5 most recently appended bins
Window(bins) == {i \in 1..Len(bins) : i > Len(bins) - 5}

\* C9: a record whose bin_id is the key of one of the 5 most recent bins
\* appends no bin and adds exactly 1 to that bin's nframes; on an empty
\* table it appends exactly one bin with that bin_id and nframes = 1.
C9_RecordFindsOrCreatesBin ==
    [][RecordCalled =>
           LET bin == op'.pulse_id[1] \div PULSE_ID_STEP
               bins == data.pulse_id_bins
           IN  /\ Len(bins) = 0 =>
                      /\ data'.pulse_id_bins = <<bin>>
                      /\ data'.nframes = <<1>>
               /\ \A i \in Window(bins) :
                      bins[i] = bin =>
                          /\ data'.pulse_id_bins = bins
                          /\ data'.nframes =
                                 [data.nframes EXCEPT ![i] = @ + 1]]_vars

(***************************************************************************)
(* Properties of the handler, checked under Spec.                          *)
(***************************************************************************)
LaserStates == {"laser_on", "laser_off"}

\* a ratio cell is hits / nframes when nframes > 0 and is no number when
\* nframes = 0
RatioIsExact(nframes, hits, ratio) ==
    IF nframes > 0 THEN ratio = Frac(hits, nframes) ELSE ratio \notin Int

\* C11: after a record call, for each laser state, each bin and the
\* summary row: the hits ratio is exactly hits / nframes when that state's
\* nframes is > 0, and is unset (no number) when it is 0.
C11_RatiosExactOrUnset ==
    [][RecordCalled =>
           \A state \in LaserStates :
               LET nf == state \o "_nframes"
                   hits == state \o "_hits"
                   ratio == state \o "_hits_ratio"
               IN  /\ RatioIsExact(sum_data'[nf][1], sum_data'[hits][1],
                                   sum_data'[ratio][1])
                   /\ \A i \in 1..Len(data'.pulse_id_bins) :
                          RatioIsExact(data'[nf][i], data'[hits][i],
                                       data'[ratio][i])]_vars

\* C12: after reset() every column of the per-bin table is empty, every
\* summary counter and ratio is 0 and the summary key is still "Summary".
C12_ResetEmptiesTable ==
    op.name = "reset" =>
        /\ \A key \in Columns : data[key] = <<>>
        /\ \A key \in Columns \ {"pulse_id_bins"} : sum_data[key] = <<0>>
        /\ sum_data.pulse_id_bins = <<"Summary">>

\* reset was called after frames were parsed
C12_Witness ==
    /\ op.name = "reset"
    /\ Cursor < 0
    /\ bragg_counts.x[1] # bragg_counts.nan

\* C13: a record call that is not skipped adds exactly 1 to nframes of
\* exactly one bin (the matched or the new one) and of the summary row,
\* and changes nframes of no other bin.
C13_RecordCountsOneFrame ==
    [][RecordCalled =>
           LET old == data.nframes
               new == data'.nframes
           IN  /\ sum_data'.nframes[1] = sum_data.nframes[1] + 1
               /\ \/ new = Append(old, 1)
                  \/ \E i \in 1..Len(old) :
                         new = [old EXCEPT ![i] = @ + 1]]_vars

\* C14: a hit frame whose metadata carries no pulse identifier leaves the
\* table alone (no bin created, no bin or summary field changed) and the
\* call returns without raising.
C14_NoPulseIdSkipsTable ==
    [][(/\ op'.name \in {"parse", "parse.record", "parse.exit"}
        /\ ~op'.dummy
        /\ op'.is_hit_frame
        /\ op'.pulse_id = None) =>
           /\ data' = data
           /\ sum_data' = sum_data
           /\ op'.raised = ""]_vars

LaserFields ==
    {"laser_on_nframes", "laser_on_hits", "laser_on_hits_ratio",
     "laser_off_nframes", "laser_off_hits", "laser_off_hits_ratio"}

\* C15: a record call without the laser-state flag turns the six laser
\* fields of the selected bin into the not-applicable marker and leaves
\* the laser fields of the summary and of every other bin as they were.
C15_NoLaserFlagMarksBin ==
    [][(RecordCalled /\ op'.laser_on = None) =>
           /\ \E i \in 1..Len(data'.pulse_id_bins) :
                  /\ \A key \in LaserFields : data'[key][i] = NaN
                  /\ \A j \in 1..Len(data.pulse_id_bins) :
                         j # i =>
                             \A key \in LaserFields :
                                 data'[key][j] = data[key][j]
           /\ \A key \in LaserFields : sum_data'[key] = sum_data[key]]_vars

\* the names of the steps of parse that come after its call of update
AfterUpdate ==
    {"parse.hit_test", "parse.bragg_counts", "parse.number_of_streaks",
     "parse.streak_lengths", "parse.with", "parse.record", "parse.exit"}

\* the step is the last statement of the update that parse called
UpdateOfParseReturns ==
    /\ op'.name = "RaceWriteIndex"
    /\ local.frame # NoFrame

\* C16: every parse call with a non-dummy image and a pulse identifier
\* appends exactly one (sum of bragg_counts, pulse_id) pair to the
\* aggregator and lowers its cursor by 1, for hit and non-hit frames and
\* also when the table section fails afterwards: the call goes into
\* update, when update returns the newest pair of the aggregator is the
\* pair of the frame and the cursor is one lower, and the rest of the call
\* leaves the aggregator alone.
C16_EveryFrameFeedsAggregator ==
    /\ [][(op'.name = "parse" /\ ~op'.dummy /\ op'.pulse_id # None) =>
              pc'.producer = "roll_x"]_vars
    /\ [][UpdateOfParseReturns =>
              LET new == bragg_aggregator'
              IN  /\ <<new.x[AggSpan], new.id[AggSpan]>> =
                         <<NpSum(local.frame.bragg_counts),
                           local.frame.pulse_id[1]>>
                  /\ new.last_processed_index =
                         bragg_aggregator.last_processed_index - 1]_vars
    /\ [][op'.name \in AfterUpdate =>
              bragg_aggregator' = bragg_aggregator]_vars

\* the names of the steps of update
UpdateSteps ==
    {"RaceRollX", "RaceBindX", "RaceSetX", "RaceRollId", "RaceBindId",
     "RaceSetId", "RaceReadIndex", "RaceWriteIndex"}

\* the step is one of a call of parse for a frame that is no hit
NoHitStep ==
    \/ op'.name = "parse" /\ ~op'.is_hit_frame
    \/ /\ op'.name \in UpdateSteps \cup AfterUpdate
       /\ local.frame # NoFrame
       /\ ~local.frame.is_hit_frame

\* C17: a parse call for a frame that is not marked as a hit leaves the
\* three NPFIFOArrays, every bin and the summary row unchanged: none of its
\* steps changes them, and it returns at the hit test.
C17_NoHitLeavesRingsAndTable ==
    [][NoHitStep =>
           /\ UNCHANGED <<number_of_streaks, streak_lengths, bragg_counts,
                          data, sum_data>>
           /\ op'.name \in AfterUpdate => op'.returned]_vars

\* a real frame that is no hit has returned after hit frames filled the
\* buffers
C17_Witness ==
    /\ op.name = "parse.hit_test"
    /\ op.returned
    /\ ~op.is_hit_frame
    /\ op.pulse_id # None
    /\ bragg_counts.x[1] # bragg_counts.nan

\* C18: a parse call with the dummy image (shape (2, 2)) changes nothing,
\* whatever the metadata.
C18_DummyChangesNothing ==
    [][(op'.name = "parse" /\ op'.dummy) =>
           /\ UNCHANGED <<number_of_streaks, streak_lengths, bragg_counts,
                          bragg_aggregator, data, sum_data>>
           /\ op'.returned
           /\ op'.raised = ""]_vars

\* a dummy image came with the metadata of a hit frame with pulse id
C18_Witness ==
    /\ op.name = "parse"
    /\ op.dummy
    /\ op.is_hit_frame
    /\ op.pulse_id # None
    /\ Cursor < 0

\* the names of the steps of the handler's clear
ClearSteps ==
    {"clear.number_of_streaks", "clear.streak_lengths", "clear.bragg_counts",
     "clear.x", "clear.id", "handler.clear"}

\* C20: the handler's clear() resets every slot of the three NPFIFOArrays
\* and of the aggregator to the sentinel, the identifiers to 0 and the
\* cursor to 0, and leaves every bin and the summary row as they were:
\* when clear() returns the four buffers are empty, and none of its steps
\* changes the table.
C20_ClearResetsBuffersOnly ==
    /\ [][op'.name = "handler.clear" =>
              /\ Empty(number_of_streaks')
              /\ Empty(streak_lengths')
              /\ Empty(bragg_counts')
              /\ Empty(bragg_aggregator')
              /\ \A i \in 1..AggSpan : bragg_aggregator'.id[i] = 0
              /\ bragg_aggregator'.last_processed_index = 0]_vars
    /\ [][op'.name \in ClearSteps => UNCHANGED <<data, sum_data>>]_vars

\* the producer is inside the with block of parse
InRecord == pc.producer \in {"lookup", "exit"}

\* the consumer is inside the with block of reset
InReset == pc.consumer \in {"columns", "summary", "exit"}

\* C19: with one thread in the table section of parse and another in
\* reset(), the two critical sections never overlap: while one thread is
\* inside its with block it owns the lock and the other thread is outside
\* its own, so reset changes no column and no summary entry between the
\* steps of one record.
C19_CriticalSectionsExclusive ==
    /\ ~(InRecord /\ InReset)
    /\ InRecord => lock.owner = "producer"
    /\ InReset => lock.owner = "consumer"

\* reset waits for the lock while parse is inside its table section
C19_Witness ==
    /\ pc.producer = "lookup"
    /\ pc.consumer = "with"

\* parse waits for the lock while reset is half way through the columns
C19_WitnessResetFirst ==
    /\ pc.producer = "with"
    /\ pc.consumer = "columns"
    /\ Len(todo) < Len(ColumnOrder)

(***************************************************************************)
(* The cursor and the count of the aggregator, checked under SpecAgg.      *)
(***************************************************************************)
\* C21: the cursor is <= 0 in every reachable state; an update with a
\* pulse id lowers it by exactly 1, a drain and a clear leave it at 0, and
\* last, count and an update without pulse id do not change it.
C21_CursorMoves ==
    [][/\ Cursor <= 0
       /\ Cursor' <= 0
       /\ (op'.name = "update" /\ op'.pulse_id # None) => Cursor' = Cursor - 1
       /\ (op'.name = "update" /\ op'.pulse_id = None) => Cursor' = Cursor
       /\ op'.name \in {"drain", "clear"} => Cursor' = 0
       /\ op'.name \in {"last", "count"} => Cursor' = Cursor]_vars

\* more pairs than the buffer holds were appended without a drain
C21_Witness ==
    /\ op.name = "update"
    /\ op.pulse_id # None
    /\ Cursor = 0 - MaxUnread
    /\ MaxUnread > AggSpan

\* C22: count() is the number of pairs appended since creation or the last
\* clear and not yet evicted: 0 on a new or just cleared buffer and
\* min(n, capacity) after n updates with a pulse id.
C22_CountIsStoredPairs ==
    op.name = "count" => op.ret = Min(Len(pushed), AggSpan)

(***************************************************************************)
(* The shape of the table, checked under SpecThreads.                      *)
(***************************************************************************)
\* C23: in every reachable state, also while parse runs on one thread and
\* reset on another, the ten columns of the per-bin table have the same
\* length, so every bin index refers to one complete bin.
C23_ColumnsSameLength ==
    \A a \in Columns, b \in Columns : Len(data[a]) = Len(data[b])

\* reset is between its two loops while parse, having stored a hit frame in
\* the buffers, waits for the lock
C23_Witness ==
    /\ pc.consumer = "summary"
    /\ pc.producer = "with"
    /\ bragg_counts.x[1] # bragg_counts.nan

(***************************************************************************)
(* The summary row against the bins, checked under Spec.                   *)
(***************************************************************************)
RECURSIVE SumOf(_)
SumOf(column) ==
    IF column = <<>> THEN 0 ELSE Head(column) + SumOf(Tail(column))

\* the last step was of a record call that was not skipped
Recorded ==
    /\ op.name \in {"parse.record", "parse.exit"}
    /\ ~op.dummy
    /\ op.is_hit_frame
    /\ op.pulse_id # None

\* C25: between operations the summary's nframes is the sum of nframes over
\* the bins of the table and the number of record calls that were not
\* skipped since the last reset or creation (so it is at least 1 right
\* after such a call and 0 right after a reset); the summary's bad_frames
\* is the sum of the bins' bad_frames and never exceeds the summary's
\* nframes.
C25_SummaryIsSumOfBins ==
    /\ sum_data.nframes[1] = SumOf(data.nframes)
    /\ sum_data.bad_frames[1] = SumOf(data.bad_frames)
    /\ sum_data.bad_frames[1] <= sum_data.nframes[1]
    /\ Recorded => sum_data.nframes[1] >= 1
    /\ op.name = "reset" => sum_data.nframes[1] = 0

(***************************************************************************)
(* update and __call__ called on their own on the two threads.             *)
(***************************************************************************)
NextRace ==
    \/ RaceUpdateCall
    \/ RaceRollX
    \/ RaceBindX
    \/ RaceSetX
    \/ RaceRollId
    \/ RaceBindId
    \/ RaceSetId
    \/ RaceReadIndex
    \/ RaceWriteIndex
    \/ RaceDrainBool
    \/ RaceDrainTestIndex
    \/ RaceDrainReadStart
    \/ RaceDrainResetIndex
    \/ RaceDrainSliceX
    \/ RaceDrainSliceId

SpecRace == Init /\ [][NextRace]_vars

\* how often __call__ has returned the pair
Returned(pair) ==
    Cardinality({i \in 1..Len(delivered) : delivered[i] = pair})

\* no call is under way and nothing is marked unread
Quiet ==
    /\ pc.producer = "idle"
    /\ pc.consumer = "idle"
    /\ Cursor = 0

\* C26: with update on one thread and __call__ on another, interleaved at
\* every read and write of the cursor and the arrays, no appended pair is
\* returned twice, and once both threads are idle and the cursor is 0
\* every appended pair still stored in the buffer was returned exactly once.
C26_EveryPairDrainedOnce ==
    /\ \A k \in 1..local.appended : Returned(Appended(k)) <= 1
    /\ Quiet =>
           \A k \in 1..local.appended :
               (\E i \in 1..AggSpan : Stored(i) = Appended(k)) =>
                   Returned(Appended(k)) = 1

====
